---- MODULE Spec2Model ----
(***************************************************************************)
(* processor_resolver::resolve_structured_processors of                    *)
(* lib/src/facts/osx/processor_resolver.cc, as a state machine.            *)
(*                                                                         *)
(* The routine is sequential: the program counter pc walks through the     *)
(* three sysctlbyname queries, the buffer-growth loop and the assembly of  *)
(* the "processors" fact.  The kernel is the environment: the outcome of   *)
(* every sysctlbyname call is drawn from a small set, and the call itself  *)
(* is recorded in the trace `calls`.  Strings are sequences of bytes, 0    *)
(* being the terminating NUL.  LOG_DEBUG is modelled with the debug level  *)
(* enabled, so every LOG_DEBUG reached appends one line to `log`.          *)
(***************************************************************************)
EXTENDS Integers, Sequences, FiniteSets, TLC

\* ------------------------------------------------------------- bounds
\* Largest processor count the kernel reports.
MaxCount == 3
\* Largest number of buffer doublings any brand string of the model needs.
MaxGrow == 2

\* -------------------------------------------------- program constants
\* vector<char> buffer(256)
InitialBufferSize == 256
\* sizeof(logical_count), sizeof(physical_count)
SizeofInt == 4
\* errno of "buffer too small"
ENOMEM == 12
\* errno values sysctlbyname may leave behind (ENOENT, ENOMEM)
Errnos == {2, ENOMEM}

hw_logicalcpu_max == "hw.logicalcpu_max"
hw_physicalcpu_max == "hw.physicalcpu_max"
machdep_cpu_brand_string == "machdep.cpu.brand_string"

\* The names the log lines and the fact carry.
fact_processor_count == "fact::processor_count"
fact_physical_processor_count == "fact::physical_processor_count"
fact_processor == "fact::processor"
fact_processors == "fact::processors"

\* ------------------------------------------------------------ inputs
\* Values a count query can store into the int.
CpuCounts == (-1)..MaxCount

RECURSIVE Pow2(_)
Pow2(k) == IF k <= 0 THEN 1 ELSE 2 * Pow2(k - 1)

\* Lengths of the kernel's brand string: short ones, and the ones on both
\* sides of every buffer size up to MaxGrow doublings.
BrandLens ==
    {0, 1, 3} \cup UNION { {InitialBufferSize * Pow2(k) - 1, InitialBufferSize * Pow2(k)}
                           : k \in 0..(MaxGrow - 1) }

\* A string of n non-NUL bytes ('A' and 'B' alternating, starting by c).
Pattern(n, c) == [i \in 1..n |-> 65 + ((i + c) % 2)]

Brands == { Pattern(n, c) : n \in BrandLens, c \in 0..1 }

\* The collection as the caller hands it over.
EntryCollections == { <<>>, << [name |-> "kernel", value |-> "Darwin"] >> }

VARIABLES
    pc,                 \* position in resolve_structured_processors
    facts,              \* the collection: the facts added, in order
    processors_value,   \* the map_value under construction
    logical_count,
    physical_count,
    processor_list,     \* the array_value of model strings
    buffer,             \* vector<char>
    log,                \* the debug log lines emitted
    brand,              \* kernel: the CPU brand string
    calls,              \* kernel: every sysctlbyname call and its outcome
    facts0              \* the collection on entry

vars == << pc, facts, processors_value, logical_count, physical_count,
           processor_list, buffer, log, brand, calls, facts0 >>

\* ----------------------------------------------------------- helpers
\* One sysctlbyname invocation: the name, the capacity handed in (*oldlenp),
\* the errno (0: the call returned 0) and the int stored (count queries).
Call(n, cap, e, v) == [name |-> n, cap |-> cap, errno |-> e, val |-> v]

\* LOG_DEBUG("sysctlbyname failed: %1% (%2%): %3% ...", strerror(errno), errno, fact)
\* Faulty variant: the logical-count failure is not logged.
LogDebug_Silent(l, e, f) == IF f = fact_processor_count THEN l
                            ELSE Append(l, [level |-> "debug", errno |-> e, fact |-> f])
LogDebug(l, e, f) == Append(l, [level |-> "debug", errno |-> e, fact |-> f])

\* map_value::add(key, value)
MapAdd(m, k, v) == [x \in (DOMAIN m) \cup {k} |-> IF x = k THEN v ELSE m[x]]

\* vector<char>::resize(n): truncates, or appends value-initialised bytes.
Zeros(n) == [i \in 1..n |-> 0]
Resize(buf, n) == IF n <= Len(buf) THEN SubSeq(buf, 1, n)
                  ELSE buf \o Zeros(n - Len(buf))

\* The kernel copying `bytes` to the start of the buffer.
CopyOut(buf, bytes) == bytes \o SubSeq(buf, Len(bytes) + 1, Len(buf))

\* The bytes the kernel returns for the brand string: the string and its NUL.
BrandBytes == Append(brand, 0)

\* if (logical_count > 0)
\* Faulty variant: the guard admits a count of 0.
NeedsModels_Ge(n) == n >= 0
NeedsModels(n) == n > 0

\* buffer.resize(buffer.size() * 2)
\* Faulty variant: the buffer grows by a constant instead of doubling.
Grow_Add(size) == size + InitialBufferSize
Grow(size) == size * 2

\* string description(buffer.data()): the bytes before the first NUL.
FirstNul(buf) ==
    LET nuls == { i \in 1..Len(buf) : buf[i] = 0 }
    IN  IF nuls = {} THEN Len(buf) + 1
        ELSE CHOOSE i \in nuls : \A j \in nuls : i <= j
\* Faulty variant: string(buffer.begin(), buffer.end()), NULs included.
Description_Whole(buf) == buf
Description(buf) == SubSeq(buf, 1, FirstNul(buf) - 1)

\* for (int i = 0; i < logical_count; ++i) processor_list->add(description)
\* Faulty variant: the loop runs while i <= logical_count.
Replicate_Long(list, s, n) == list \o [i \in 1..(n + 1) |-> s]
Replicate(list, s, n) == list \o [i \in 1..n |-> s]

\* if (processor_list->size() > 0) processors_value->add("models", ...)
AddModels(m, list) == IF Len(list) > 0 THEN MapAdd(m, "models", list) ELSE m

\* if (!processors_value->empty()) facts.add(fact::processors, ...)
\* Faulty variant: the fact is added without the empty() test.
AddFact_Always(coll, m) == Append(coll, [name |-> fact_processors, value |-> m])
AddFact(coll, m) ==
    IF DOMAIN m # {} THEN Append(coll, [name |-> fact_processors, value |-> m])
    ELSE coll

\* --------------------------------------------------------------- Init
Init ==
    /\ pc = "logical"
    /\ facts0 \in EntryCollections
    /\ facts = facts0
    /\ brand \in Brands
    /\ processors_value = <<>>
    /\ logical_count = 0
    /\ physical_count = 0
    /\ processor_list = <<>>
    /\ buffer = <<>>
    /\ log = <<>>
    /\ calls = <<>>

\* ------------------------------------------------------------ actions
\* sysctlbyname("hw.logicalcpu_max") != 0
\* Faulty variant: count is added on failure too.
LogicalCountFails_AddsCount ==
    /\ pc = "logical"
    /\ \E e \in Errnos :
          /\ calls' = Append(calls, Call(hw_logicalcpu_max, SizeofInt, e, 0))
          /\ log' = LogDebug(log, e, fact_processor_count)
    /\ processors_value' = MapAdd(processors_value, "count", logical_count)
    /\ pc' = "physical"
    /\ UNCHANGED << facts, logical_count, physical_count,
                    processor_list, buffer, brand, facts0 >>
LogicalCountFails ==
    /\ pc = "logical"
    /\ \E e \in Errnos :
          /\ calls' = Append(calls, Call(hw_logicalcpu_max, SizeofInt, e, 0))
          /\ log' = LogDebug(log, e, fact_processor_count)
    /\ pc' = "physical"
    /\ UNCHANGED << facts, processors_value, logical_count, physical_count,
                    processor_list, buffer, brand, facts0 >>

\* sysctlbyname("hw.logicalcpu_max") == 0
LogicalCountSucceeds ==
    /\ pc = "logical"
    /\ \E n \in CpuCounts :
          /\ calls' = Append(calls, Call(hw_logicalcpu_max, SizeofInt, 0, n))
          /\ logical_count' = n
          /\ processors_value' = MapAdd(processors_value, "count", n)
    /\ pc' = "physical"
    /\ UNCHANGED << facts, physical_count, processor_list, buffer, log,
                    brand, facts0 >>

\* sysctlbyname("hw.physicalcpu_max") != 0
PhysicalCountFails ==
    /\ pc = "physical"
    /\ \E e \in Errnos :
          /\ calls' = Append(calls, Call(hw_physicalcpu_max, SizeofInt, e, 0))
          /\ log' = LogDebug(log, e, fact_physical_processor_count)
    /\ pc' = "models"
    /\ UNCHANGED << facts, processors_value, logical_count, physical_count,
                    processor_list, buffer, brand, facts0 >>

\* sysctlbyname("hw.physicalcpu_max") == 0
\* Faulty variant: the physical query is made only after a successful logical one.
PhysicalCountSucceeds_IfLogical ==
    /\ pc = "physical"
    /\ IF "count" \in DOMAIN processors_value
       THEN \E n \in CpuCounts :
              /\ calls' = Append(calls, Call(hw_physicalcpu_max, SizeofInt, 0, n))
              /\ physical_count' = n
              /\ processors_value' = MapAdd(processors_value, "physicalcount", n)
       ELSE UNCHANGED << calls, physical_count, processors_value >>
    /\ pc' = "models"
    /\ UNCHANGED << facts, logical_count, processor_list, buffer, log,
                    brand, facts0 >>
PhysicalCountSucceeds ==
    /\ pc = "physical"
    /\ \E n \in CpuCounts :
          /\ calls' = Append(calls, Call(hw_physicalcpu_max, SizeofInt, 0, n))
          /\ physical_count' = n
          /\ processors_value' = MapAdd(processors_value, "physicalcount", n)
    /\ pc' = "models"
    /\ UNCHANGED << facts, logical_count, processor_list, buffer, log,
                    brand, facts0 >>

\* auto processor_list = ...; if (logical_count > 0) { vector<char> buffer(256);
CollectModels ==
    /\ pc = "models"
    /\ IF NeedsModels(logical_count)
       THEN /\ buffer' = Resize(<<>>, InitialBufferSize)
            /\ pc' = "brand"
       ELSE /\ pc' = "assemble"
            /\ UNCHANGED buffer
    /\ UNCHANGED << facts, processors_value, logical_count, physical_count,
                    processor_list, log, brand, calls, facts0 >>

\* The brand query returns 0: the buffer holds the string and its NUL, size is
\* their length; resize, break, build the description, replicate it.
\* Faulty variant: the break is missing, the loop queries again.
BrandSucceeds_NoBreak ==
    /\ pc = "brand"
    /\ Len(buffer) >= Len(BrandBytes)
    /\ calls' = Append(calls, Call(machdep_cpu_brand_string, Len(buffer), 0, 0))
    /\ buffer' = Resize(CopyOut(buffer, BrandBytes), Len(BrandBytes) + 1)
    /\ pc' = "brand"
    /\ UNCHANGED << facts, processors_value, logical_count, physical_count,
                    processor_list, log, brand, facts0 >>
BrandSucceeds ==
    /\ pc = "brand"
    /\ Len(buffer) >= Len(BrandBytes)
    /\ calls' = Append(calls, Call(machdep_cpu_brand_string, Len(buffer), 0, 0))
    /\ buffer' = Resize(CopyOut(buffer, BrandBytes), Len(BrandBytes) + 1)
    /\ processor_list' = Replicate(processor_list, Description(buffer'), logical_count)
    /\ pc' = "assemble"
    /\ UNCHANGED << facts, processors_value, logical_count, physical_count,
                    log, brand, facts0 >>

\* The brand query fails with ENOMEM: the buffer is too small.  The kernel may
\* or may not have copied the part that fits.  Double the buffer and retry.
BrandNoMem ==
    /\ pc = "brand"
    /\ Len(buffer) < Len(BrandBytes)
    /\ calls' = Append(calls, Call(machdep_cpu_brand_string, Len(buffer), ENOMEM, 0))
    /\ \E partial \in BOOLEAN :
          buffer' = Resize(IF partial
                           THEN CopyOut(buffer, SubSeq(BrandBytes, 1, Len(buffer)))
                           ELSE buffer,
                           Grow(Len(buffer)))
    /\ pc' = "brand"
    /\ UNCHANGED << facts, processors_value, logical_count, physical_count,
                    processor_list, log, brand, facts0 >>

\* The brand query fails with another errno: log and return.
\* Faulty variant: the return is missing, the routine goes on to the assembly.
BrandFails_FallsThrough ==
    /\ pc = "brand"
    /\ \E e \in Errnos \ {ENOMEM} :
          /\ calls' = Append(calls, Call(machdep_cpu_brand_string, Len(buffer), e, 0))
          /\ log' = LogDebug(log, e, fact_processor)
    /\ pc' = "assemble"
    /\ UNCHANGED << facts, processors_value, logical_count, physical_count,
                    processor_list, buffer, brand, facts0 >>
BrandFails ==
    /\ pc = "brand"
    /\ \E e \in Errnos \ {ENOMEM} :
          /\ calls' = Append(calls, Call(machdep_cpu_brand_string, Len(buffer), e, 0))
          /\ log' = LogDebug(log, e, fact_processor)
    /\ pc' = "done"
    /\ UNCHANGED << facts, processors_value, logical_count, physical_count,
                    processor_list, buffer, brand, facts0 >>

\* The assembly: models if the list is not empty, the fact if the map is not.
Assemble ==
    /\ pc = "assemble"
    /\ processors_value' = AddModels(processors_value, processor_list)
    /\ facts' = AddFact(facts, processors_value')
    /\ pc' = "done"
    /\ UNCHANGED << logical_count, physical_count, processor_list, buffer,
                    log, brand, calls, facts0 >>

Next ==
    \/ LogicalCountFails
    \/ LogicalCountSucceeds
    \/ PhysicalCountFails
    \/ PhysicalCountSucceeds
    \/ CollectModels
    \/ BrandSucceeds
    \/ BrandNoMem
    \/ BrandFails
    \/ Assemble

Spec == Init /\ [][Next]_vars

\* The routine is straight-line code over calls that return: it always takes
\* its next step.
FairSpec == Spec /\ WF_vars(Next)

\* ------------------------------------------------- what the claims read
Fields == {"count", "physicalcount", "models"}

\* A fact was added during this invocation, and the record it carries.
Added == Len(facts) > Len(facts0)
Record == facts[Len(facts)].value

CallsOf(n) == SelectSeq(calls, LAMBDA c : c.name = n)
LogicalCalls == CallsOf(hw_logicalcpu_max)
PhysicalCalls == CallsOf(hw_physicalcpu_max)
BrandCalls == CallsOf(machdep_cpu_brand_string)

LogicalOk == Len(LogicalCalls) = 1 /\ LogicalCalls[1].errno = 0
PhysicalOk == Len(PhysicalCalls) = 1 /\ PhysicalCalls[1].errno = 0
BrandOk == Len(BrandCalls) > 0 /\ BrandCalls[Len(BrandCalls)].errno = 0
BrandAborted == Len(BrandCalls) > 0
                /\ BrandCalls[Len(BrandCalls)].errno \notin {0, ENOMEM}

\* The fact each query's failure line names.
FactOf(n) == IF n = hw_logicalcpu_max THEN fact_processor_count
             ELSE IF n = hw_physicalcpu_max THEN fact_physical_processor_count
             ELSE fact_processor

\* One debug line per call of cs, in call order.
LinesFor(cs) ==
    [i \in 1..Len(cs) |->
        [level |-> "debug", errno |-> cs[i].errno, fact |-> FactOf(cs[i].name)]]

Failed(c) == c.errno # 0
BufferRetry(c) == c.name = machdep_cpu_brand_string /\ c.errno = ENOMEM

\* C1: the "processors" record is added only if it holds at least one of
\* count, physicalcount, models; when no query yielded data (no count query
\* succeeded and no model string was read), the routine ends with nothing
\* added.  An add is a single fact named "processors".
C1_AddedOnlyIfNonEmpty ==
    /\ Added => /\ Len(facts) = Len(facts0) + 1
                /\ facts[Len(facts)].name = fact_processors
                /\ SubSeq(facts, 1, Len(facts0)) = facts0
                /\ DOMAIN Record \cap Fields # {}
    /\ (pc = "done" /\ ~LogicalOk /\ ~PhysicalOk /\ ~BrandOk) => facts = facts0
C1_Witness ==
    /\ pc = "done"
    /\ Len(calls) = 2
    /\ ~LogicalOk /\ ~PhysicalOk
    /\ facts = facts0

\* C2: once the model query has failed with an errno other than ENOMEM the
\* routine has returned and the collection is exactly the one it was given,
\* even when count and physicalcount had been obtained.
C2_NonBufferErrorAddsNothing ==
    BrandAborted => pc = "done" /\ facts = facts0
C2_Witness ==
    /\ BrandAborted
    /\ LogicalOk /\ PhysicalOk
    /\ DOMAIN processors_value = {"count", "physicalcount"}
    /\ facts = facts0

\* C3: an added record has the count field exactly when the logical-count
\* query succeeded, and the field then holds the value the query returned.
C3_CountFieldFollowsLogicalQuery ==
    Added => /\ ~LogicalOk => "count" \notin DOMAIN Record
             /\ "count" \in DOMAIN Record =>
                    LogicalOk /\ Record["count"] = LogicalCalls[1].val
C3_Witness ==
    /\ Added
    /\ ~LogicalOk
    /\ PhysicalOk
    /\ DOMAIN Record = {"physicalcount"}

\* C4: the physical-count query is issued exactly once on every invocation,
\* right after the logical one whatever its outcome.  If it failed, an added
\* record has no physicalcount field; if it succeeded, every added record has
\* the physicalcount field and the field holds the value the query returned,
\* whatever the logical-count and model queries did; and a routine that ran
\* to its end after a successful physical query has added the record.
C4_PhysicalQueryIndependent ==
    /\ pc \notin {"logical", "physical"} =>
          /\ Len(PhysicalCalls) = 1
          /\ Len(calls) >= 2
          /\ calls[2].name = hw_physicalcpu_max
    /\ (Added /\ ~PhysicalOk) => "physicalcount" \notin DOMAIN Record
    /\ (Added /\ PhysicalOk) =>
          /\ "physicalcount" \in DOMAIN Record
          /\ Record["physicalcount"] = PhysicalCalls[1].val
    /\ (pc = "done" /\ PhysicalOk /\ ~BrandAborted) => Added
C4_Witness ==
    /\ pc = "done"
    /\ ~LogicalOk
    /\ PhysicalOk
    /\ PhysicalCalls[1].val = 0
    /\ Added
    /\ DOMAIN Record = {"physicalcount"}
    /\ Record["physicalcount"] = 0

\* C5: the model query is issued only when the logical count is greater than
\* 0; with a logical count of 0 or less (a failed query leaves 0) no model
\* query is ever issued and an added record has no models field.
C5_ModelQueryOnlyIfPositiveCount ==
    /\ Len(BrandCalls) > 0 => logical_count > 0
    /\ logical_count <= 0 =>
          /\ BrandCalls = <<>>
          /\ Added => "models" \notin DOMAIN Record
C5_Witness ==
    /\ pc = "done"
    /\ LogicalOk
    /\ LogicalCalls[1].val = 0
    /\ BrandCalls = <<>>
    /\ Added
    /\ "count" \in DOMAIN Record

\* C6: when the model query succeeds with the string S and the logical count
\* is N > 0, the record added has a models field of exactly N entries, each
\* equal to S.
C6_ModelsAreNCopies ==
    (pc = "done" /\ BrandOk) =>
        /\ logical_count > 0
        /\ Added
        /\ "models" \in DOMAIN Record
        /\ Len(Record["models"]) = logical_count
        /\ \A i \in 1..logical_count : Record["models"][i] = brand
C6_Witness ==
    /\ pc = "done"
    /\ BrandOk
    /\ logical_count = MaxCount
    /\ Len(brand) = 3
    /\ Added
    /\ Len(Record["models"]) = MaxCount

\* C7: the k-th model query is made with capacity 256 * 2^(k-1); every attempt
\* but the last failed with ENOMEM (no attempt follows a success or another
\* error), and after an ENOMEM the loop is still running with a doubled buffer.
C7_BufferDoubling ==
    /\ \A k \in 1..Len(BrandCalls) :
          /\ BrandCalls[k].cap = InitialBufferSize * Pow2(k - 1)
          /\ k < Len(BrandCalls) => BrandCalls[k].errno = ENOMEM
    /\ (Len(BrandCalls) > 0 /\ BrandCalls[Len(BrandCalls)].errno = ENOMEM) =>
          /\ pc = "brand"
          /\ Len(buffer) = InitialBufferSize * Pow2(Len(BrandCalls))
    /\ pc = "brand" => Len(buffer) = InitialBufferSize * Pow2(Len(BrandCalls))
C7_Witness ==
    /\ Len(BrandCalls) = 3
    /\ BrandCalls[1].errno = ENOMEM
    /\ BrandCalls[2].errno = ENOMEM
    /\ BrandCalls[3].cap = 4 * InitialBufferSize
    /\ BrandCalls[3].errno = 0

\* C8 as stated: one debug line per failed query, the ENOMEM attempts of the
\* buffer-growth loop included, and none for a query that succeeded.
C8_EveryFailureLogged ==
    log = LinesFor(SelectSeq(calls, Failed))

\* C8 amended: one debug line per failed count query and per model query that
\* failed with an errno other than ENOMEM, in call order; an ENOMEM attempt of
\* the buffer-growth loop and a query that succeeded emit nothing.
C8_FailuresLoggedExceptENOMEMRetry ==
    log = LinesFor(SelectSeq(calls, LAMBDA c : Failed(c) /\ ~BufferRetry(c)))
C8_Witness ==
    /\ pc = "done"
    /\ ~PhysicalOk
    /\ Len(BrandCalls) = 2
    /\ BrandCalls[1].errno = ENOMEM
    /\ BrandAborted
    /\ Len(log) = 2

\* C9: in every record added, a models field comes with a count field whose
\* value is positive and equals the number of models.
C9_ModelsImplyCount ==
    (Added /\ "models" \in DOMAIN Record) =>
        /\ "count" \in DOMAIN Record
        /\ Record["count"] > 0
        /\ Len(Record["models"]) = Record["count"]
C9_Witness ==
    /\ Added
    /\ DOMAIN Record = Fields
    /\ Record["count"] = 2
    /\ Len(Record["models"]) = 2

\* C10: the routine always terminates; no model query follows one whose
\* capacity was at least the length the string needs, so the loop makes at
\* most as many attempts as doublings reach that length; and the collection
\* receives at most one add.
C10_Terminates ==
    /\ <>(pc = "done")
    /\ [](\A k \in 1..(Len(BrandCalls) - 1) : BrandCalls[k].cap < Len(BrandBytes))
    /\ [](Len(facts) <= Len(facts0) + 1)
C10_Witness ==
    /\ pc = "done"
    /\ Len(BrandCalls) = 3
    /\ BrandOk
    /\ Len(facts) = Len(facts0) + 1

====
